---- MODULE Spec2Model ----
(***************************************************************************)
(* nmap-exporter: the scan cycle of exporter.py (target resolution, batch  *)
(* scheduling on a bounded worker pool, aggregation of the batch outcomes, *)
(* GeoIP enrichment, metric emission, sleep) and the TTL cache of          *)
(* modules/geoip_enricher.py.                                              *)
(*                                                                         *)
(* Strings that the code only compares or stores are TLA+ strings.         *)
(* Strings that the code takes apart (the ISP/org/ASN text that is         *)
(* classified, a target that is tested for being a numeric literal) are    *)
(* sequences of one-character strings.                                     *)
(***************************************************************************)
EXTENDS Integers, Sequences, FiniteSets, TLC

\* ------------------------------------------------------------------ bounds
MaxLines == 3        \* lines of the target file
MaxCycles == 1       \* iterations of the driver loop explored with every schedule
MaxBatchSize == 2    \* NMAP_BATCH_SIZE ranges over 0..MaxBatchSize
MaxWorkers == 2      \* NMAP_CONCURRENT_BATCHES ranges over 0..MaxWorkers
MaxTime == 4         \* the clock is explored up to this reading
MaxTTL == 2          \* GEOIP_CACHE_TTL ranges over 0..MaxTTL
MaxCalls == 2        \* enrich_batch calls of the enricher harness
MaxIps == 2          \* length of the list handed to enrich_batch by the harness
MaxTargets == 3      \* targets of one cycle
MaxListLen == 5      \* targets of a list that is only split into batches
MaxSplit == 3        \* batch sizes such a list is split with
MaxSleep == 2        \* clock ticks that pass between two cycles
LoopCycles == 2      \* iterations of the driver loop explored one after the other
LoopTargets == 1     \* targets of a cycle when several cycles are explored

Min(a, b) == IF a < b THEN a ELSE b

\* ------------------------------------------------------- character strings
UpperCase ==
  << "A","B","C","D","E","F","G","H","I","J","K","L","M",
     "N","O","P","Q","R","S","T","U","V","W","X","Y","Z" >>
LowerCase ==
  << "a","b","c","d","e","f","g","h","i","j","k","l","m",
     "n","o","p","q","r","s","t","u","v","w","x","y","z" >>
Digits == {"0","1","2","3","4","5","6","7","8","9"}

\* str.lower() on one character, then on a string.
LowerChar(c) ==
  IF \E i \in 1..26 : UpperCase[i] = c
  THEN LowerCase[CHOOSE i \in 1..26 : UpperCase[i] = c]
  ELSE c

\* Fault variant of Lower: the text is compared as it came.
NotLowered(s) == s

Lower(s) == [i \in 1..Len(s) |-> LowerChar(s[i])]

\* kw in s  (substring test)
Contains(s, kw) ==
  \E i \in 0..(Len(s) - Len(kw)) : \A j \in 1..Len(kw) : s[i + j] = kw[j]

\* any(kw in combined for kw in keywords)
AnyKeyword(combined, keywords) ==
  \E k \in 1..Len(keywords) : Contains(combined, keywords[k])

\* s.replace('.', '')
RECURSIVE RemoveDots(_)
RemoveDots(s) ==
  IF s = <<>> THEN <<>>
  ELSE IF Head(s) = "." THEN RemoveDots(Tail(s))
       ELSE <<Head(s)>> \o RemoveDots(Tail(s))

\* str.isdigit(): non-empty and every character a digit
IsDigit(s) == Len(s) > 0 /\ \A i \in 1..Len(s) : s[i] \in Digits

\* --------------------------------------------------- ConnectionClassifier
mobile_keywords ==
  << <<"m","o","b","i","l","e">>,
     <<"l","t","e">>,
     <<"4","g">>,
     <<"5","g">>,
     <<"c","e","l","l","u","l","a","r">>,
     <<"w","i","r","e","l","e","s","s">>,
     <<"v","o","d","a","f","o","n","e">>,
     <<"t","-","m","o","b","i","l","e">>,
     <<"v","e","r","i","z","o","n">>,
     <<"a","t","&","t">>,
     <<"a","t","t">> >>

datacenter_keywords ==
  << <<"a","w","s">>,
     <<"a","m","a","z","o","n">>,
     <<"a","z","u","r","e">>,
     <<"m","i","c","r","o","s","o","f","t">>,
     <<"g","o","o","g","l","e"," ","c","l","o","u","d">>,
     <<"g","c","p">>,
     <<"h","e","t","z","n","e","r">>,
     <<"o","v","h">>,
     <<"d","i","g","i","t","a","l","o","c","e","a","n">>,
     <<"l","i","n","o","d","e">>,
     <<"v","u","l","t","r">>,
     <<"d","a","t","a","c","e","n","t","r","e">>,
     <<"d","a","t","a","c","e","n","t","e","r">>,
     <<"h","o","s","t","i","n","g">>,
     <<"c","l","o","u","d">> >>

fiber_keywords ==
  << <<"f","i","b","e","r">>,
     <<"f","i","b","r","e">>,
     <<"f","t","t","h">>,
     <<"f","t","t","p">> >>

dsl_keywords ==
  << <<"d","s","l">>,
     <<"v","d","s","l">>,
     <<"a","d","s","l">>,
     <<"b","r","o","a","d","b","a","n","d">> >>

\* f"{isp} {org} {asn}".lower()
Combined(isp, org, asn) == Lower(isp \o <<" ">> \o org \o <<" ">> \o asn)

\* Fault variant of InferConnectionType: the data centre keywords are tried
\* before the mobile ones.
InferDatacentreFirst(isp, org, asn) ==
  LET combined == Combined(isp, org, asn) IN
  IF AnyKeyword(combined, datacenter_keywords) THEN "datacentre"
  ELSE IF AnyKeyword(combined, mobile_keywords) THEN "mobile"
  ELSE IF AnyKeyword(combined, fiber_keywords) THEN "fibre"
  ELSE IF AnyKeyword(combined, dsl_keywords) THEN "dsl"
  ELSE "unknown"

\* GeoIPEnricher._infer_connection_type
InferConnectionType(isp, org, asn) ==
  LET combined == Combined(isp, org, asn) IN
  IF AnyKeyword(combined, mobile_keywords) THEN "mobile"
  ELSE IF AnyKeyword(combined, datacenter_keywords) THEN "datacentre"
  ELSE IF AnyKeyword(combined, fiber_keywords) THEN "fibre"
  ELSE IF AnyKeyword(combined, dsl_keywords) THEN "dsl"
  ELSE "unknown"

\* ---------------------------------------------------------- BatchScheduler
\* list(range(start, stop, step)) for step > 0
RECURSIVE Range(_, _, _)
Range(start, stop, step) ==
  IF start >= stop THEN <<>>
  ELSE <<start>> \o Range(start + step, stop, step)

\* s[lo:hi] for 0 <= lo <= hi (Python clips hi to len(s))
Slice(s, lo, hi) == SubSeq(s, lo + 1, Min(hi, Len(s)))

\* Fault variant of Batches: the range stops one target early, as
\* range(0, target_count - 1, batch_size) would.
BatchesShortRange(tl, bs) ==
  LET starts == Range(0, Len(tl) - 1, bs) IN
  [k \in 1..Len(starts) |-> Slice(tl, starts[k], starts[k] + bs)]

\* [target_list[i:i + batch_size] for i in range(0, target_count, batch_size)]
Batches(tl, bs) ==
  LET starts == Range(0, Len(tl), bs) IN
  [k \in 1..Len(starts) |-> Slice(tl, starts[k], starts[k] + bs)]

\* ---------------------------------------------------------------- targets
\* The words (maximal runs of non-blank characters) that occur in the target
\* file, in ascending Python string order, and their spelling.
WordOrder == << "10.0.0.1", "web" >>
Words == {WordOrder[i] : i \in 1..Len(WordOrder)}
Spelling(w) ==
  CASE w = "10.0.0.1" -> <<"1","0",".","0",".","0",".","1">>
    [] w = "web" -> <<"w","e","b">>
    [] OTHER -> <<>>

\* A line of the file is a sequence of atoms: a blank " " or a word.
\* A blank sorts before every word, as the space does before digits and letters.
AtomRank(a) == IF a = " " THEN 0 ELSE CHOOSE i \in 1..Len(WordOrder) : WordOrder[i] = a

\* The lines a target file is made of.
LineMenu ==
  { <<>>,
    <<" ">>,
    <<"10.0.0.1">>,
    <<"web">>,
    <<" ", "10.0.0.1", " ">>,
    <<"10.0.0.1", " ", "web">> }

\* The contents of the target file, as f.read() split at "\n": one line at least.
FileContents == UNION {[1..n -> LineMenu] : n \in 1..MaxLines}

\* The target file as open() finds it: readable with some content, or not.
TargetFiles ==
  {[readable |-> TRUE, lines |-> c] : c \in FileContents} \cup
  {[readable |-> FALSE, lines |-> <<>>]}

IsBlankLine(line) == \A i \in 1..Len(line) : line[i] = " "

\* str.lstrip(), str.rstrip(), str.strip() on a line
RECURSIVE LStrip(_)
LStrip(line) ==
  IF line /= <<>> /\ Head(line) = " " THEN LStrip(Tail(line)) ELSE line
RECURSIVE RStrip(_)
RStrip(line) ==
  IF line /= <<>> /\ line[Len(line)] = " "
  THEN RStrip(SubSeq(line, 1, Len(line) - 1)) ELSE line
Strip(line) == RStrip(LStrip(line))

\* str.strip() on the whole content: blank lines at both ends go, and so do the
\* blanks before the first and after the last word.
RECURSIVE DropLeadingBlank(_)
DropLeadingBlank(lines) ==
  IF lines /= <<>> /\ IsBlankLine(Head(lines))
  THEN DropLeadingBlank(Tail(lines)) ELSE lines
RECURSIVE DropTrailingBlank(_)
DropTrailingBlank(lines) ==
  IF lines /= <<>> /\ IsBlankLine(lines[Len(lines)])
  THEN DropTrailingBlank(SubSeq(lines, 1, Len(lines) - 1)) ELSE lines
StripContent(lines) ==
  LET kept == DropTrailingBlank(DropLeadingBlank(lines)) IN
  [i \in 1..Len(kept) |->
     LET a == IF i = 1 THEN LStrip(kept[i]) ELSE kept[i] IN
     IF i = Len(kept) THEN RStrip(a) ELSE a]

\* fetch_ips_from_file: f.read().strip().split("\n"), [] when the file cannot
\* be read.  "".split("\n") is [""].
fetch_ips_from_file(file) ==
  IF ~file.readable THEN <<>>
  ELSE LET kept == StripContent(file.lines) IN
       IF kept = <<>> THEN << <<>> >> ELSE kept

\* a < b for two lines, as Python compares the strings
RECURSIVE LineLess(_, _)
LineLess(a, b) ==
  IF b = <<>> THEN FALSE
  ELSE IF a = <<>> THEN TRUE
  ELSE IF Head(a) = Head(b) THEN LineLess(Tail(a), Tail(b))
  ELSE AtomRank(Head(a)) < AtomRank(Head(b))

\* sorted(S) for a set of lines
RECURSIVE SortedLines(_)
SortedLines(S) ==
  IF S = {} THEN <<>>
  ELSE LET m == CHOOSE x \in S : \A y \in S \ {x} : LineLess(x, y) IN
       <<m>> \o SortedLines(S \ {m})

\* " ".join(lines).split(): the words of the lines, in order
RECURSIVE JoinSplit(_)
JoinSplit(lines) ==
  IF lines = <<>> THEN <<>>
  ELSE SelectSeq(Head(lines), LAMBDA a : a /= " ") \o JoinSplit(Tail(lines))

\* {t.strip() for t in targets_list if t and t.strip()}
StrippedSet(targets_list) ==
  {Strip(targets_list[i]) : i \in {j \in 1..Len(targets_list) : Strip(targets_list[j]) /= <<>>}}

\* target_list of main() for TARGET_SOURCE=file: the set of stripped non-empty
\* lines, sorted, joined with blanks and split again.
ResolveTargets(file) == JoinSplit(SortedLines(StrippedSet(fetch_ips_from_file(file))))

\* not target.replace('.', '').isdigit()
IsHostname(target) == ~IsDigit(RemoveDots(Spelling(target)))

\* ------------------------------------------------------- the scan capability
\* Host identifiers a scan reports, in ascending string order (all_hosts() sorts).
HostOrder == << "10.0.0.1", "10.0.0.2" >>
HostIPs == {HostOrder[i] : i \in 1..Len(HostOrder)}
HostRank(h) == CHOOSE i \in 1..Len(HostOrder) : HostOrder[i] = h
Ports == {22}

\* The address the resolver gives for a hostname target.
Resolved(t) == "10.0.0.2"

\* The host entries a scan of target t can report: a numeric target is reported
\* under itself, with no hostname; a hostname target is reported under the
\* address it resolved to, with the hostname given.
HostEntriesFor(t) ==
  IF IsHostname(t)
  THEN {[host |-> Resolved(t), hostname |-> t, port |-> p] : p \in Ports}
  ELSE {[host |-> t, hostname |-> "", port |-> p] : p \in Ports}

NoResult == [kind |-> "none", hosts |-> {}, raises |-> "none"]
ScanError == [kind |-> "error", hosts |-> {}, raises |-> "none"]

\* What nm_instance.scan() of a batch can produce: an error (PortScannerError
\* and the like), or a PortScanner holding at most one entry per host.  "raises"
\* says whether reading the result later raises: in hostname() while the
\* hostname mapping is built, or in scanstats() when the statistics are exposed.
ScanOutcomes(batch) ==
  LET entries == UNION {HostEntriesFor(batch[i]) : i \in 1..Len(batch)} IN
  LET hostsets == {x \in SUBSET entries :
                     \A a \in x : \A b \in x : a.host = b.host => a = b} IN
  {ScanError} \cup
  {[kind |-> "result", hosts |-> hs, raises |-> r] :
     hs \in hostsets, r \in {"none", "stats"}} \cup
  {[kind |-> "result", hosts |-> hs, raises |-> "hostname"] :
     hs \in hostsets \ {{}}}

\* nm_result.all_hosts(): the hosts of a result, sorted
RECURSIVE SortedHosts(_)
SortedHosts(S) ==
  IF S = {} THEN <<>>
  ELSE LET m == CHOOSE x \in S : \A y \in S : HostRank(x) <= HostRank(y) IN
       <<m>> \o SortedHosts(S \ {m})
all_hosts(nm) == SortedHosts({e.host : e \in nm.hosts})

\* nm_result[host].hostname()
hostname_of(nm, host) == (CHOOSE e \in nm.hosts : e.host = host).hostname

\* d[k] = v on a dict
DictSet(d, k, v) == [x \in (DOMAIN d) \cup {k} |-> IF x = k THEN v ELSE d[x]]

\* One pass of the body of the two loops of exporter.py:162-173.
MapStep(hm, nm, target, host) ==
  LET hostname == hostname_of(nm, host) IN
  IF hostname /= "" /\ hostname = target THEN DictSet(hm, target, host)
  ELSE IF host = target THEN DictSet(hm, target, host)
  ELSE IF target \notin DOMAIN hm \/ hm[target] = target
       THEN IF IsHostname(target) THEN DictSet(hm, host, target) ELSE hm
       ELSE hm

\* for host in nm_result.all_hosts(): ...
RECURSIVE MapHosts(_, _, _, _)
MapHosts(hm, nm, target, hosts) ==
  IF hosts = <<>> THEN hm
  ELSE MapHosts(MapStep(hm, nm, target, Head(hosts)), nm, target, Tail(hosts))

\* for target in batch: for host in nm_result.all_hosts(): ...
RECURSIVE MapBatch(_, _, _)
MapBatch(hm, nm, batch) ==
  IF batch = <<>> THEN hm
  ELSE MapBatch(MapHosts(hm, nm, Head(batch), all_hosts(nm)), nm, Tail(batch))

\* ----------------------------------------------------------- GeoIPEnricher
\* JSON bodies the provider answers with (the keys the code reads).
ApiPayloads ==
  { [asn |-> <<"A","S","1">>, org |-> <<"A","W","S">>,
     country_code |-> "US", city |-> "Seattle", region |-> "WA"],
    [asn |-> <<"A","S","2">>, org |-> <<"V","o","d","a","f","o","n","e"," ","C","l","o","u","d">>,
     country_code |-> "DE", city |-> "Berlin", region |-> "BE"] }
NoPayload == [asn |-> <<>>, org |-> <<>>, country_code |-> "", city |-> "", region |-> ""]

\* What session.get() can end in: an HTTP response, a timeout, a transport error.
FetchResponses ==
  {[kind |-> "http", status |-> 200, data |-> p] : p \in ApiPayloads} \cup
  {[kind |-> "http", status |-> s, data |-> NoPayload] : s \in {429, 500}} \cup
  {[kind |-> k, status |-> 0, data |-> NoPayload] : k \in {"timeout", "error"}}

\* raw_data is None
NoneRaw ==
  [some |-> FALSE, asn |-> <<>>, org |-> <<>>, isp |-> <<>>,
   country |-> "", city |-> "", region |-> ""]

\* GeoIPEnricher._fetch_ipapi_co: the dict built from a 200 response, else None
fetch_ipapi_co(resp) ==
  IF resp.kind = "http" /\ resp.status = 200
  THEN [some |-> TRUE, asn |-> resp.data.asn, org |-> resp.data.org,
        isp |-> resp.data.org, country |-> resp.data.country_code,
        city |-> resp.data.city, region |-> resp.data.region]
  ELSE NoneRaw

\* Fault variant of empty_data: the connection type is left empty as well.
EmptyDataNoType ==
  [asn |-> <<>>, isp |-> <<>>, org |-> <<>>, country |-> "", city |-> "",
   region |-> "", connection_type |-> ""]

\* GeoIPEnricher._empty_data
empty_data ==
  [asn |-> <<>>, isp |-> <<>>, org |-> <<>>, country |-> "", city |-> "",
   region |-> "", connection_type |-> "unknown"]

\* enriched_data of GeoIPEnricher.enrich
EnrichedData(raw) ==
  [asn |-> raw.asn, isp |-> raw.isp, org |-> raw.org, country |-> raw.country,
   city |-> raw.city, region |-> raw.region,
   connection_type |-> InferConnectionType(raw.isp, raw.org, raw.asn)]

\* ------------------------------------------------------------------- state
VARIABLES
  pc,                      \* where the driver loop of main() is
  cycle,                   \* iterations of the loop begun
  batch_size, max_workers, \* NMAP_BATCH_SIZE, NMAP_CONCURRENT_BATCHES
  geoip_enabled,           \* GEOIP_ENABLED: main() holds a GeoIPEnricher
  target_list, batches,
  futures,                 \* per batch index: state and result of its future
  collected,               \* batch indices the as_completed loop has handled
  scan_calls,              \* per batch index: calls of nm_instance.scan()
  successful_batches, failed_batches,
  all_scan_ips, batch_results, hostname_map,
  reported,                \* per batch index: the outcome logged for "Batch idx"
  metric_target_count, metric_successful_scans, metric_failed_scans,
  scans_before,            \* the two counters when the cycle's scan began
  metric_results, metric_results_geoip,
  geoip_data,
  provider, cache_ttl,     \* GEOIP_PROVIDER, GEOIP_CACHE_TTL
  cache,                   \* GeoIPEnricher._cache: ip -> (data, timestamp)
  debug_cache,             \* _cache of the enricher handed to the HTTP server
  now,                     \* time.time()
  tasks,                   \* the enrich coroutines of the running enrich_batch
  fetches,                 \* session.get() calls made so far
  calls,                   \* enrich_batch calls made by the harness
  classify_in,             \* isp, org, asn handed to _infer_connection_type
  classify_out             \* what it returned

\* What is set up before the loop and not assigned again; this includes the
\* enricher built at exporter.py:241, on which nothing calls enrich.
cfgVars ==
  <<batch_size, max_workers, geoip_enabled, provider, cache_ttl, debug_cache>>
scanVars ==
  <<target_list, batches, futures, collected, scan_calls, successful_batches,
    failed_batches, all_scan_ips, batch_results, hostname_map, reported,
    scans_before>>
metricVars ==
  <<metric_target_count, metric_successful_scans, metric_failed_scans,
    metric_results, metric_results_geoip>>
geoVars == <<cache, tasks, fetches, geoip_data>>
classifyVars == <<classify_in, classify_out>>
vars ==
  <<pc, cycle, cfgVars, scanVars, metricVars, geoVars, now, calls, classifyVars>>

EmptyDict == [x \in {} |-> x]

\* geoip_data = None, and geoip_data = the dict enrich_batch returned
NoGeoData == [some |-> FALSE, data |-> EmptyDict]
GeoData(d) == [some |-> TRUE, data |-> d]

\* The state of main() when the loop is entered: nothing scanned, the metrics
\* at their initial values, an empty cache.
InitRest ==
  /\ cycle = 0
  /\ batches = <<>> /\ futures = <<>>
  /\ collected = {} /\ scan_calls = <<>>
  /\ successful_batches = 0 /\ failed_batches = 0
  /\ all_scan_ips = {} /\ batch_results = <<>> /\ hostname_map = EmptyDict
  /\ reported = <<>>
  /\ metric_target_count = 0
  /\ metric_successful_scans = 0 /\ metric_failed_scans = 0
  /\ scans_before = <<0, 0>>
  /\ metric_results = EmptyDict /\ metric_results_geoip = EmptyDict
  /\ geoip_data = NoGeoData
  /\ cache = EmptyDict /\ now = 0 /\ tasks = <<>> /\ fetches = 0 /\ calls = 0
  /\ debug_cache = EmptyDict

\* No direct call of the classifier is under way.
NoClassifyCall ==
  /\ classify_in = [isp |-> <<>>, org |-> <<>>, asn |-> <<>>]
  /\ classify_out = ""

InitCommon ==
  /\ target_list = <<>>
  /\ InitRest
  /\ NoClassifyCall

\* main() enters its loop, for each setting of the batch size, the pool size
\* and the enrichment switch.
Init ==
  /\ InitCommon
  /\ pc = "resolving"
  /\ batch_size \in 0..MaxBatchSize
  /\ max_workers \in 0..MaxWorkers
  /\ geoip_enabled \in BOOLEAN
  /\ provider = "ipapi.co"
  /\ cache_ttl = MaxTTL

\* ------------------------------------------------------------ the scan cycle
BatchIdx == DOMAIN futures
Pending == [state |-> "pending", result |-> NoResult]

\* Fault variant of Resolve: the test for an empty target string is missing, so
\* that an empty list is split, submitted and collected like any other.
ResolveNoEmptyCheck(limit) ==
  /\ pc = "resolving"
  /\ cycle < limit
  /\ cycle' = cycle + 1
  /\ \E file \in TargetFiles :
       LET tl == ResolveTargets(file) IN
       /\ Len(tl) <= MaxTargets
       /\ metric_target_count' = Len(tl)
       /\ target_list' = tl
       /\ IF batch_size = 0
          THEN /\ pc' = "crashed"
               /\ UNCHANGED <<batches, futures, collected, scan_calls,
                              successful_batches, failed_batches,
                              all_scan_ips, batch_results, hostname_map,
                              reported, scans_before>>
          ELSE /\ batches' = Batches(tl, batch_size)
               /\ successful_batches' = 0
               /\ failed_batches' = 0
               /\ all_scan_ips' = {}
               /\ batch_results' = <<>>
               /\ hostname_map' = [t \in {tl[i] : i \in 1..Len(tl)} |-> t]
               /\ scans_before' = <<metric_successful_scans, metric_failed_scans>>
               /\ IF max_workers = 0
                  THEN /\ pc' = "crashed"
                       /\ UNCHANGED <<futures, collected, scan_calls, reported>>
                  ELSE /\ pc' = "scanning"
                       /\ futures' = [i \in 1..Len(batches') |-> Pending]
                       /\ collected' = {}
                       /\ scan_calls' = [i \in 1..Len(batches') |-> 0]
                       /\ reported' = [i \in 1..Len(batches') |-> "none"]
  /\ UNCHANGED <<cfgVars, classifyVars, metric_successful_scans, metric_failed_scans,
                 metric_results, metric_results_geoip, geoVars, now, calls>>

\* exporter.py:72-151: resolve the targets, report their number, split them
\* into batches, reset the cycle's aggregates and submit every batch to the pool.
\* range() with step 0 and ThreadPoolExecutor(max_workers=0) raise ValueError,
\* which the handler at exporter.py:225 logs before main() returns.
\* limit bounds the number of iterations that are explored.
Resolve(limit) ==
  /\ pc = "resolving"
  /\ cycle < limit
  /\ cycle' = cycle + 1
  /\ \E file \in TargetFiles :
       LET tl == ResolveTargets(file) IN
       /\ Len(tl) <= MaxTargets
       /\ metric_target_count' = Len(tl)
       /\ IF tl = <<>>
          THEN /\ pc' = "sleeping"
               /\ UNCHANGED scanVars
          ELSE /\ target_list' = tl
               /\ IF batch_size = 0
                  THEN /\ pc' = "crashed"
                       /\ UNCHANGED <<batches, futures, collected, scan_calls,
                                      successful_batches, failed_batches,
                                      all_scan_ips, batch_results, hostname_map,
                                      reported, scans_before>>
                  ELSE /\ batches' = Batches(tl, batch_size)
                       /\ successful_batches' = 0
                       /\ failed_batches' = 0
                       /\ all_scan_ips' = {}
                       /\ batch_results' = <<>>
                       /\ hostname_map' = [t \in {tl[i] : i \in 1..Len(tl)} |-> t]
                       /\ scans_before' = <<metric_successful_scans, metric_failed_scans>>
                       /\ IF max_workers = 0
                          THEN /\ pc' = "crashed"
                               /\ UNCHANGED <<futures, collected, scan_calls, reported>>
                          ELSE /\ pc' = "scanning"
                               /\ futures' = [i \in 1..Len(batches') |-> Pending]
                               /\ collected' = {}
                               /\ scan_calls' = [i \in 1..Len(batches') |-> 0]
                               /\ reported' = [i \in 1..Len(batches') |-> "none"]
  /\ UNCHANGED <<cfgVars, classifyVars, metric_successful_scans, metric_failed_scans,
                 metric_results, metric_results_geoip, geoVars, now, calls>>

\* The workers of the pool run from the submission of the batches until the
\* "with" block has been left (exporter.py:149): by the end of the loop over
\* the futures or, when an exception leaves the block, after __exit__ has
\* called shutdown(wait=True), in which the queued calls are still run.
PoolOpen == pc \in {"scanning", "draining"}

Running == {i \in BatchIdx : futures[i].state = "running"}

\* Fault variant of WorkerFree: a pool that starts every call at once.
UnboundedPool == TRUE

\* Fault variant of WorkerFree: one worker of the pool is never given work.
WorkerFreeButOne == Cardinality(Running) < max_workers - 1

\* ThreadPoolExecutor(max_workers): a queued call starts when a worker is idle.
WorkerFree == Cardinality(Running) < max_workers

\* A worker takes the oldest queued batch and calls scan_batch, which calls
\* nm_instance.scan() (exporter.py:29-35).
StartScan(i) ==
  /\ PoolOpen
  /\ futures[i].state = "pending"
  /\ \A j \in BatchIdx : j < i => futures[j].state /= "pending"
  /\ WorkerFree
  /\ futures' = [futures EXCEPT ![i].state = "running"]
  /\ scan_calls' = [scan_calls EXCEPT ![i] = @ + 1]
  /\ UNCHANGED <<pc, cycle, cfgVars, classifyVars, target_list, batches, collected,
                 successful_batches, failed_batches, all_scan_ips, batch_results,
                 hostname_map, reported, scans_before, metricVars, geoVars, now,
                 calls>>

\* scan_batch returns (nm_instance, None) or, on an exception of the scan,
\* (None, str(e)) (exporter.py:33-39).
FinishScan(i) ==
  /\ PoolOpen
  /\ futures[i].state = "running"
  /\ \E res \in ScanOutcomes(batches[i]) :
       futures' = [futures EXCEPT ![i] = [state |-> "finished", result |-> res]]
  /\ UNCHANGED <<pc, cycle, cfgVars, classifyVars, target_list, batches, collected, scan_calls,
                 successful_batches, failed_batches, all_scan_ips, batch_results,
                 hostname_map, reported, scans_before, metricVars, geoVars, now,
                 calls>>

\* Fault variant of FutureIndex: the position in completion order is taken for
\* the batch index, as "for idx, future in enumerate(as_completed(...))" would.
IndexByCompletion(i, n) == n + 1

\* batch_idx, batch = futures[future] (exporter.py:154): the future handed out
\* by as_completed is looked up in the dict that was keyed at submission.  n is
\* the number of futures handled before it.
FutureIndex(i, n) == i

\* failed_batches += 1; increment_failed_scans(); logger.error("Batch idx ...")
\* (exporter.py:185-187 and, after an exception, 189-191)
CountFailed(idx) ==
  /\ failed_batches' = failed_batches + 1
  /\ metric_failed_scans' = metric_failed_scans + 1
  /\ reported' = [reported EXCEPT ![idx] = "failed"]
  /\ UNCHANGED <<successful_batches, metric_successful_scans>>

\* successful_batches += 1; increment_successful_scans(); logger.info(...)
\* (exporter.py:181-183)
CountSuccessful(idx) ==
  /\ successful_batches' = successful_batches + 1
  /\ metric_successful_scans' = metric_successful_scans + 1
  /\ reported' = [reported EXCEPT ![idx] = "success"]
  /\ UNCHANGED <<failed_batches, metric_failed_scans>>

\* Fault variant of GotError: a failed batch ends the loop over the futures.
GotErrorAbort(i, idx) ==
  /\ CountFailed(idx)
  /\ collected' = collected \cup {i}
  /\ pc' = "emitting"
  /\ UNCHANGED <<futures, scan_calls, batch_results, hostname_map, all_scan_ips>>

\* Fault variant of GotError: a failed batch is submitted to the pool again.
GotErrorRetry(i, idx) ==
  /\ CountFailed(idx)
  /\ futures' = [futures EXCEPT ![i] = Pending]
  /\ UNCHANGED <<pc, collected, scan_calls, batch_results, hostname_map, all_scan_ips>>

\* The branch for a scan that returned no result (exporter.py:184-187): the
\* batch is counted and logged as failed, nothing else happens to it.
GotError(i, idx) ==
  /\ CountFailed(idx)
  /\ collected' = collected \cup {i}
  /\ UNCHANGED <<pc, futures, scan_calls, batch_results, hostname_map, all_scan_ips>>

\* Fault variant of GotResult: the batch is counted as successful before its
\* statistics are read, so that a raise there counts it a second time.
GotResultCountedEarly(i, idx, res) ==
  /\ batch_results' = Append(batch_results, [nm |-> res, batch |-> batches[idx]])
  /\ collected' = collected \cup {i}
  /\ UNCHANGED <<pc, futures, scan_calls>>
  /\ IF res.raises = "hostname"
     THEN /\ CountFailed(idx)
          /\ UNCHANGED <<hostname_map, all_scan_ips>>
     ELSE /\ hostname_map' = MapBatch(hostname_map, res, batches[idx])
          /\ all_scan_ips' =
               IF geoip_enabled
               THEN all_scan_ips \cup {e.host : e \in res.hosts}
               ELSE all_scan_ips
          /\ IF res.raises = "stats"
             THEN /\ successful_batches' = successful_batches + 1
                  /\ metric_successful_scans' = metric_successful_scans + 1
                  /\ failed_batches' = failed_batches + 1
                  /\ metric_failed_scans' = metric_failed_scans + 1
                  /\ reported' = [reported EXCEPT ![idx] = "failed"]
             ELSE CountSuccessful(idx)

\* The branch for a scan that returned a result (exporter.py:157-183), and the
\* handler that takes over when reading the result raises (exporter.py:188-191).
GotResult(i, idx, res) ==
  /\ batch_results' = Append(batch_results, [nm |-> res, batch |-> batches[idx]])
  /\ collected' = collected \cup {i}
  /\ UNCHANGED <<pc, futures, scan_calls>>
  /\ IF res.raises = "hostname"
     THEN /\ CountFailed(idx)
          /\ UNCHANGED <<hostname_map, all_scan_ips>>
     ELSE /\ hostname_map' = MapBatch(hostname_map, res, batches[idx])
          /\ all_scan_ips' =
               IF geoip_enabled
               THEN all_scan_ips \cup {e.host : e \in res.hosts}
               ELSE all_scan_ips
          /\ IF res.raises = "stats"
             THEN CountFailed(idx)
             ELSE CountSuccessful(idx)

\* One pass of the loop over as_completed(futures) (exporter.py:153-191).
Collect(i) ==
  /\ pc = "scanning"
  /\ futures[i].state = "finished"
  /\ i \notin collected
  /\ LET idx == FutureIndex(i, Cardinality(collected))
         res == futures[i].result
     IN IF res.kind = "result" THEN GotResult(i, idx, res) ELSE GotError(i, idx)
  /\ UNCHANGED <<cycle, cfgVars, classifyVars, target_list, batches, scans_before,
                 metric_target_count, metric_results, metric_results_geoip,
                 geoVars, now, calls>>

\* Fault variant of AllCollected: the pool is left after the first outcome.
SomeCollected == collected /= {}

\* The loop over as_completed ends, and the "with" block is left, when every
\* future has been handed out (exporter.py:149-153).
AllCollected == collected = BatchIdx

\* ------------------------------------------------------ enrichment tasks
NewTask(ip) ==
  [ip |-> ip, st |-> "new", raw |-> NoneRaw, result |-> empty_data, how |-> ""]

\* Fault variant of Orders: the hosts are kept in a list that is appended to,
\* so that an address can occur in it more than once.
OrdersWithRepeats(S) == [1..Cardinality(S) -> S]

\* The orders in which list(all_scan_ips) can enumerate a set.
Orders(S) ==
  {s \in [1..Cardinality(S) -> S] : \A a, b \in 1..Cardinality(S) : s[a] = s[b] => a = b}

\* Fault variants of IsCacheValid: the comparison turned round, and the
\* comparison made inclusive.
IsCacheValidInverted(ip) ==
  /\ ip \in DOMAIN cache
  /\ (now - cache[ip].timestamp) > cache_ttl
IsCacheValidInclusive(ip) ==
  /\ ip \in DOMAIN cache
  /\ (now - cache[ip].timestamp) <= cache_ttl

\* GeoIPEnricher._is_cache_valid
IsCacheValid(ip) ==
  /\ ip \in DOMAIN cache
  /\ (now - cache[ip].timestamp) < cache_ttl

\* GeoIPEnricher.get_cached_data and get_cache_stats on the enricher whose
\* _cache is c (the TTL comes from the same environment variable for both).
get_cached_data(c) ==
  [ip \in DOMAIN c |->
     [data |-> c[ip].data,
      cached_at |-> c[ip].timestamp,
      is_valid |-> (now - c[ip].timestamp) < cache_ttl]]
CacheStatsOf(c) ==
  LET valid_entries ==
        Cardinality({ip \in DOMAIN c : (now - c[ip].timestamp) < cache_ttl}) IN
  [total_entries |-> Cardinality(DOMAIN c),
   valid_entries |-> valid_entries,
   stale_entries |-> Cardinality(DOMAIN c) - valid_entries]

\* CustomHandler.do_GET for /debug/geoip: the handler reads _geoip_enricher,
\* the enricher that __main__ built and passed to start_prometheus_server
\* (exporter.py:241-247), while main() enriches with the one it built itself
\* (exporter.py:62).
DebugGeoip ==
  [stats |-> CacheStatsOf(debug_cache),
   cached_data |-> get_cached_data(debug_cache)]

\* Fault variant of get_cache_stats: stale entries are counted by the age test
\* made inclusive, not as the rest of the entries.
GetCacheStatsStaleByAge ==
  LET valid_entries == Cardinality({ip \in DOMAIN cache : IsCacheValid(ip)}) IN
  [total_entries |-> Cardinality(DOMAIN cache),
   valid_entries |-> valid_entries,
   stale_entries |-> Cardinality({ip \in DOMAIN cache :
                                    now - cache[ip].timestamp > cache_ttl})]

\* GeoIPEnricher.get_cache_stats
get_cache_stats ==
  LET valid_entries == Cardinality({ip \in DOMAIN cache : IsCacheValid(ip)}) IN
  [total_entries |-> Cardinality(DOMAIN cache),
   valid_entries |-> valid_entries,
   stale_entries |-> Cardinality(DOMAIN cache) - valid_entries]

\* Fault variant of AfterFetch: a failed refresh returns the stale record and
\* evicts its entry.
AfterFetchEvictStale(k, raw) ==
  LET ip == tasks[k].ip IN
  IF ~raw.some
  THEN /\ tasks' = [tasks EXCEPT ![k] =
                      [@ EXCEPT !.st = "done", !.raw = raw,
                                !.result = IF ip \in DOMAIN cache
                                           THEN cache[ip].data ELSE empty_data,
                                !.how = IF ip \in DOMAIN cache
                                        THEN "stale" ELSE "empty"]]
       /\ cache' = [x \in DOMAIN cache \ {ip} |-> cache[x]]
  ELSE /\ tasks' = [tasks EXCEPT ![k] =
                      [@ EXCEPT !.st = "done", !.raw = raw,
                                !.result = EnrichedData(raw), !.how = "fresh"]]
       /\ cache' = DictSet(cache, ip, [data |-> EnrichedData(raw), timestamp |-> now])

\* Fault variant of AfterFetch: the record that is returned is cached with the
\* current time whether the fetch gave data or not.
AfterFetchCacheAlways(k, raw) ==
  LET ip == tasks[k].ip
      rec == IF raw.some THEN EnrichedData(raw)
             ELSE IF ip \in DOMAIN cache THEN cache[ip].data ELSE empty_data
  IN /\ tasks' = [tasks EXCEPT ![k] =
                    [@ EXCEPT !.st = "done", !.raw = raw, !.result = rec,
                              !.how = IF raw.some THEN "fresh"
                                      ELSE IF ip \in DOMAIN cache THEN "stale"
                                      ELSE "empty"]]
     /\ cache' = DictSet(cache, ip, [data |-> rec, timestamp |-> now])

\* Fault variant of AfterFetch: a failed fetch gives the empty record even
\* when the address has an entry.
AfterFetchNoFallback(k, raw) ==
  LET ip == tasks[k].ip IN
  IF ~raw.some
  THEN /\ tasks' = [tasks EXCEPT ![k] =
                      [@ EXCEPT !.st = "done", !.raw = raw,
                                !.result = empty_data, !.how = "empty"]]
       /\ UNCHANGED cache
  ELSE /\ tasks' = [tasks EXCEPT ![k] =
                      [@ EXCEPT !.st = "done", !.raw = raw,
                                !.result = EnrichedData(raw), !.how = "fresh"]]
       /\ cache' = DictSet(cache, ip, [data |-> EnrichedData(raw), timestamp |-> now])

\* Fault variant of AfterFetch: a fetched record is cached only when the
\* address has no entry yet, as self._cache.setdefault(ip, ...) would.
AfterFetchKeepEntry(k, raw) ==
  LET ip == tasks[k].ip IN
  IF ~raw.some
  THEN /\ tasks' = [tasks EXCEPT ![k] =
                      [@ EXCEPT !.st = "done", !.raw = raw,
                                !.result = IF ip \in DOMAIN cache
                                           THEN cache[ip].data ELSE empty_data,
                                !.how = IF ip \in DOMAIN cache
                                        THEN "stale" ELSE "empty"]]
       /\ UNCHANGED cache
  ELSE /\ tasks' = [tasks EXCEPT ![k] =
                      [@ EXCEPT !.st = "done", !.raw = raw,
                                !.result = EnrichedData(raw), !.how = "fresh"]]
       /\ cache' = IF ip \in DOMAIN cache THEN cache
                   ELSE DictSet(cache, ip, [data |-> EnrichedData(raw), timestamp |-> now])

\* GeoIPEnricher.enrich after the fetch (geoip_enricher.py:151-182): with no
\* data, the cached record if there is one, else the empty record; with data,
\* the record built from it, which is cached with the current time.
AfterFetch(k, raw) ==
  LET ip == tasks[k].ip IN
  IF ~raw.some
  THEN /\ tasks' = [tasks EXCEPT ![k] =
                      [@ EXCEPT !.st = "done", !.raw = raw,
                                !.result = IF ip \in DOMAIN cache
                                           THEN cache[ip].data ELSE empty_data,
                                !.how = IF ip \in DOMAIN cache
                                        THEN "stale" ELSE "empty"]]
       /\ UNCHANGED cache
  ELSE /\ tasks' = [tasks EXCEPT ![k] =
                      [@ EXCEPT !.st = "done", !.raw = raw,
                                !.result = EnrichedData(raw), !.how = "fresh"]]
       /\ cache' = DictSet(cache, ip, [data |-> EnrichedData(raw), timestamp |-> now])

\* GeoIPEnricher.enrich up to its first suspension (geoip_enricher.py:137-149):
\* a valid entry is returned at once; otherwise the fetch is issued, or, for a
\* provider other than ipapi.co, raw_data is None without a fetch.  The event
\* loop starts the coroutines of a gather in the order they were given.
TaskStart(k) ==
  /\ tasks[k].st = "new"
  /\ \A j \in 1..(k - 1) : tasks[j].st /= "new"
  /\ IF IsCacheValid(tasks[k].ip)
     THEN /\ tasks' = [tasks EXCEPT ![k] =
                         [@ EXCEPT !.st = "done", !.how = "hit",
                                   !.result = cache[tasks[k].ip].data]]
          /\ UNCHANGED <<cache, fetches>>
     ELSE IF provider = "ipapi.co"
          THEN /\ tasks' = [tasks EXCEPT ![k].st = "fetching"]
               /\ fetches' = fetches + 1
               /\ UNCHANGED cache
          ELSE /\ AfterFetch(k, NoneRaw)
               /\ UNCHANGED fetches
  /\ UNCHANGED <<pc, cycle, cfgVars, classifyVars, scanVars, metricVars, geoip_data, now, calls>>

\* The awaited session.get() of a task ends (geoip_enricher.py:100-125) and the
\* task runs to its return.  A suspended task is resumed only by the event
\* loop, which first runs every coroutine of the gather to its suspension.
FetchReturn(k) ==
  /\ tasks[k].st = "fetching"
  /\ \A j \in 1..Len(tasks) : tasks[j].st /= "new"
  /\ \E resp \in FetchResponses : AfterFetch(k, fetch_ipapi_co(resp))
  /\ UNCHANGED <<pc, cycle, cfgVars, classifyVars, scanVars, metricVars, geoip_data, now,
                 fetches, calls>>

\* Time passes while the harness waits for a fetch, and between its calls.
Tick ==
  /\ now < MaxTime
  /\ pc = "harness"
  /\ now' = now + 1
  /\ UNCHANGED <<pc, cycle, cfgVars, classifyVars, scanVars, metricVars, geoVars, calls>>

AllTasksDone == \A k \in 1..Len(tasks) : tasks[k].st = "done"

\* Fault variant of BatchResult: addresses whose lookup gave the empty record
\* are left out of the mapping.
BatchResultDropEmpty(ts) ==
  [ip \in {ts[k].ip : k \in {j \in 1..Len(ts) : ts[j].result /= empty_data}} |->
     ts[CHOOSE k \in 1..Len(ts) :
          ts[k].ip = ip /\ \A j \in (k + 1)..Len(ts) : ts[j].ip /= ip].result]

\* {ip: result for ip, result in zip(ips, results)}: a later pair replaces an
\* earlier one with the same ip.
BatchResult(ts) ==
  [ip \in {ts[k].ip : k \in 1..Len(ts)} |->
     ts[CHOOSE k \in 1..Len(ts) :
          ts[k].ip = ip /\ \A j \in (k + 1)..Len(ts) : ts[j].ip /= ip].result]

\* ------------------------------------------- the cycle after the scanning
\* exporter.py:193-203: after the pool has been left, geoip_data = None, and
\* with an enricher and at least one discovered host enrich_batch is called on
\* list(all_scan_ips).
BeginEnrich ==
  /\ pc = "scanning"
  /\ AllCollected
  /\ geoip_data' = NoGeoData
  /\ IF geoip_enabled /\ all_scan_ips /= {}
     THEN /\ pc' = "enriching"
          /\ \E ips \in Orders(all_scan_ips) :
               tasks' = [k \in 1..Len(ips) |-> NewTask(ips[k])]
     ELSE /\ pc' = "emitting"
          /\ UNCHANGED tasks
  /\ UNCHANGED <<cycle, cfgVars, classifyVars, scanVars, metricVars, cache, fetches, now, calls>>

\* enrich_batch returns the mapping of its results (geoip_enricher.py:195-196,
\* exporter.py:201-205).
EnrichReturn ==
  /\ pc = "enriching"
  /\ AllTasksDone
  /\ geoip_data' = GeoData(BatchResult(tasks))
  /\ tasks' = <<>>
  /\ pc' = "emitting"
  /\ UNCHANGED <<cycle, cfgVars, classifyVars, scanVars, metricVars, cache, fetches, now, calls>>

\* Any exception out of the enrichment is logged and leaves geoip_data = None
\* (exporter.py:206-208); the coroutines that were still waiting are dropped.
EnrichRaise ==
  /\ pc = "enriching"
  /\ geoip_data' = NoGeoData
  /\ tasks' = <<>>
  /\ pc' = "emitting"
  /\ UNCHANGED <<cycle, cfgVars, classifyVars, scanVars, metricVars, cache, fetches, now, calls>>

\* The one service line nm.csv() holds for a host entry.
ServiceOf(e) ==
  [host |-> e.host, protocol |-> "tcp", port |-> e.port, name |-> "ssh",
   product |-> "OpenSSH"]

\* target = hostname_map.get(host, host) if hostname_map else host
TargetLabel(hm, host) ==
  IF hm /= EmptyDict /\ host \in DOMAIN hm THEN hm[host] ELSE host

\* Fault variant of SetBase: the base series is written in the else branch
\* of the enrichment test, so a record with enrichment has no base series.
SetBaseUnlessEnriched(mr, hm, s) ==
  IF geoip_data.some /\ s.host \in DOMAIN geoip_data.data
  THEN mr
  ELSE DictSet(mr, <<s.host, TargetLabel(hm, s.host), s.protocol, s.name, s.product>>, s.port)

\* metric_results.labels(host, target, prot, name, prod).set(float(port))
SetBase(mr, hm, s) ==
  DictSet(mr, <<s.host, TargetLabel(hm, s.host), s.protocol, s.name, s.product>>, s.port)

\* if geoip_data and host in geoip_data: metric_results_geoip.labels(...).set(...)
SetGeo(mg, gd, hm, s) ==
  IF gd.some /\ gd.data /= EmptyDict /\ s.host \in DOMAIN gd.data
  THEN LET geo == gd.data[s.host] IN
       DictSet(mg, <<s.host, TargetLabel(hm, s.host), s.protocol, s.name, s.product,
                     geo.isp, geo.asn, geo.country, geo.city, geo.connection_type>>,
               s.port)
  ELSE mg

\* expose_nmap_scan_results on one result: the lines of nm.csv() in host order.
\* m is the pair of the two gauges.
RECURSIVE ExposeHosts(_, _, _, _, _)
ExposeHosts(m, nm, hosts, gd, hm) ==
  IF hosts = <<>> THEN m
  ELSE LET s == ServiceOf(CHOOSE e \in nm.hosts : e.host = Head(hosts)) IN
       ExposeHosts(<<SetBase(m[1], hm, s), SetGeo(m[2], gd, hm, s)>>,
                   nm, Tail(hosts), gd, hm)
expose_nmap_scan_results(m, nm, gd, hm) == ExposeHosts(m, nm, all_hosts(nm), gd, hm)

\* for nm_result, batch in batch_results: expose_nmap_scan_results(...)
RECURSIVE ExposeAll(_, _, _, _)
ExposeAll(m, results, gd, hm) ==
  IF results = <<>> THEN m
  ELSE ExposeAll(expose_nmap_scan_results(m, Head(results).nm, gd, hm),
                 Tail(results), gd, hm)

\* Fault variant of Emit: both gauges are cleared before the results of the
\* cycle are exposed, so that only the series of the cycle remain.
EmitAfterClear ==
  /\ pc = "emitting"
  /\ LET m == ExposeAll(<<EmptyDict, EmptyDict>>, batch_results,
                        geoip_data, hostname_map)
     IN /\ metric_results' = m[1]
        /\ metric_results_geoip' = m[2]
  /\ pc' = "sleeping"
  /\ UNCHANGED <<cycle, cfgVars, classifyVars, scanVars, metric_target_count,
                 metric_successful_scans, metric_failed_scans, geoVars, now, calls>>

\* Fault variant of Emit: the results are exposed as soon as the scans are
\* done, while the enrichment of the cycle is still running.
EmitWhileEnriching ==
  /\ pc \in {"enriching", "emitting"}
  /\ LET m == ExposeAll(<<metric_results, metric_results_geoip>>, batch_results,
                        geoip_data, hostname_map)
     IN /\ metric_results' = m[1]
        /\ metric_results_geoip' = m[2]
  /\ pc' = "sleeping"
  /\ UNCHANGED <<cycle, cfgVars, classifyVars, scanVars, metric_target_count,
                 metric_successful_scans, metric_failed_scans, geoVars, now, calls>>

\* exporter.py:210-216
Emit ==
  /\ pc = "emitting"
  /\ LET m == ExposeAll(<<metric_results, metric_results_geoip>>, batch_results,
                        geoip_data, hostname_map)
     IN /\ metric_results' = m[1]
        /\ metric_results_geoip' = m[2]
  /\ pc' = "sleeping"
  /\ UNCHANGED <<cycle, cfgVars, classifyVars, scanVars, metric_target_count,
                 metric_successful_scans, metric_failed_scans, geoVars, now, calls>>

\* Fault variant of Sleep: the handler sits inside the loop, so that after an
\* unexpected exception the loop sleeps and goes on.
SleepAfterCrash ==
  /\ pc \in {"sleeping", "crashed"}
  /\ \E d \in 1..MaxSleep :
       /\ now + d <= MaxTime
       /\ now' = now + d
  /\ pc' = "resolving"
  /\ UNCHANGED <<cycle, cfgVars, classifyVars, scanVars, metricVars, geoVars, calls>>

\* time.sleep(scan_frequency), then the next iteration (exporter.py:218-220, 71)
Sleep ==
  /\ pc = "sleeping"
  /\ \E d \in 1..MaxSleep :
       /\ now + d <= MaxTime
       /\ now' = now + d
  /\ pc' = "resolving"
  /\ UNCHANGED <<cycle, cfgVars, classifyVars, scanVars, metricVars, geoVars, calls>>

Next ==
  \/ Resolve(MaxCycles)
  \/ \E i \in BatchIdx : StartScan(i)
  \/ \E i \in BatchIdx : FinishScan(i)
  \/ \E i \in BatchIdx : Collect(i)
  \/ BeginEnrich
  \/ \E k \in 1..Len(tasks) : TaskStart(k)
  \/ \E k \in 1..Len(tasks) : FetchReturn(k)
  \/ EnrichReturn
  \/ EnrichRaise
  \/ Emit
  \/ Sleep

Spec == Init /\ [][Next]_vars

\* ------------------------------------------- the loop left undisturbed
LiveTargets == 1

\* main() with a batch size and a pool size that the range and the pool accept.
InitLive ==
  /\ Init
  /\ batch_size >= 1
  /\ max_workers >= 1

\* One iteration begins, on at most LiveTargets targets.
LiveResolve ==
  /\ Resolve(LoopCycles)
  /\ metric_target_count' <= LiveTargets

\* The steps of the loop when no exception leaves the loop body and no
\* interrupt arrives.
NextLive ==
  \/ LiveResolve
  \/ \E i \in BatchIdx : StartScan(i)
  \/ \E i \in BatchIdx : FinishScan(i)
  \/ \E i \in BatchIdx : Collect(i)
  \/ BeginEnrich
  \/ \E k \in 1..Len(tasks) : TaskStart(k)
  \/ \E k \in 1..Len(tasks) : FetchReturn(k)
  \/ EnrichReturn
  \/ EnrichRaise
  \/ Emit
  \/ Sleep

\* The main thread, the workers of the pool and the event loop keep running,
\* every scan returns (FinishScan) and every lookup returns (FetchReturn); the
\* sleep ends.  That the enrichment raises is possible but not required.
Fairness ==
  /\ WF_vars(LiveResolve)
  /\ WF_vars(\E i \in BatchIdx : StartScan(i))
  /\ WF_vars(\E i \in BatchIdx : FinishScan(i))
  /\ WF_vars(\E i \in BatchIdx : Collect(i))
  /\ WF_vars(BeginEnrich)
  /\ WF_vars(\E k \in 1..Len(tasks) : TaskStart(k))
  /\ WF_vars(\E k \in 1..Len(tasks) : FetchReturn(k))
  /\ WF_vars(EnrichReturn)
  /\ WF_vars(Emit)
  /\ WF_vars(Sleep)

SpecLive == InitLive /\ [][NextLive]_vars /\ Fairness

\* ---------------------------------------------------------- interrupts
SignalTargets == 2

\* One iteration begins, on at most SignalTargets targets.
SignalResolve ==
  /\ Resolve(MaxCycles)
  /\ metric_target_count' <= SignalTargets

\* KeyboardInterrupt is raised in the main thread.  It is no Exception, so the
\* handlers at exporter.py:189 and 206 let it pass.  Out of the sleep, the
\* emission and the enrichment (whose coroutines are dropped with the loop) it
\* reaches the handler at 222-224 directly.  Out of the scanning phase it
\* first leaves the "with" block of the pool (exporter.py:149), whose exit
\* waits for the running and the queued scans.
Interrupt ==
  /\ pc \in {"scanning", "enriching", "emitting", "sleeping"}
  /\ pc' = IF pc = "scanning" THEN "draining" ELSE "exited"
  /\ tasks' = <<>>
  /\ UNCHANGED <<cycle, cfgVars, classifyVars, scanVars, metricVars, cache, fetches,
                 geoip_data, now, calls>>

\* The pool has shut down; sys.exit(0) (exporter.py:222-224).
Exit ==
  /\ pc = "draining"
  /\ \A i \in BatchIdx : futures[i].state = "finished"
  /\ pc' = "exited"
  /\ UNCHANGED <<cycle, cfgVars, classifyVars, scanVars, metricVars, geoVars, now, calls>>

NextSignal ==
  \/ SignalResolve
  \/ \E i \in BatchIdx : StartScan(i)
  \/ \E i \in BatchIdx : FinishScan(i)
  \/ \E i \in BatchIdx : Collect(i)
  \/ BeginEnrich
  \/ \E k \in 1..Len(tasks) : TaskStart(k)
  \/ \E k \in 1..Len(tasks) : FetchReturn(k)
  \/ EnrichReturn
  \/ EnrichRaise
  \/ Emit
  \/ Sleep
  \/ Interrupt
  \/ Exit

SpecSignal == Init /\ [][NextSignal]_vars

\* ------------------------------------------------- the loop over cycles
\* The driver loop over several iterations, each on few targets.

\* One iteration begins (exporter.py:71-151).
LoopResolve ==
  /\ Resolve(LoopCycles)
  /\ metric_target_count' <= LoopTargets

\* An exception that neither scan_batch, the loop over the futures nor the
\* enrichment handles, raised in the body of the loop: EnvironmentError for a
\* missing variable of the target source (exporter.py:79-81), an exception of
\* expose_nmap_scan_results (exporter.py:212), ValueError of float() on
\* SCAN_FREQUENCY (exporter.py:218).  The handler at exporter.py:225-226 logs
\* it, main() returns and the process ends with it.
Unexpected ==
  /\ pc \in {"resolving", "emitting", "sleeping"}
  /\ pc' = "crashed"
  /\ UNCHANGED <<cycle, cfgVars, classifyVars, scanVars, metricVars, geoVars, now,
                 calls>>

NextLoop ==
  \/ LoopResolve
  \/ \E i \in BatchIdx : StartScan(i)
  \/ \E i \in BatchIdx : FinishScan(i)
  \/ \E i \in BatchIdx : Collect(i)
  \/ BeginEnrich
  \/ \E k \in 1..Len(tasks) : TaskStart(k)
  \/ \E k \in 1..Len(tasks) : FetchReturn(k)
  \/ EnrichReturn
  \/ EnrichRaise
  \/ Emit
  \/ Sleep
  \/ Unexpected

SpecLoop == Init /\ [][NextLoop]_vars

\* --------------------------------------------------- splitting alone
\* Any target list and any positive batch size, as exporter.py:122-134 finds
\* them; the only step splits the list.
InitBatch ==
  /\ InitRest
  /\ NoClassifyCall
  /\ pc = "splitting"
  /\ target_list \in UNION {[1..n -> Words] : n \in 0..MaxListLen}
  /\ batch_size \in 1..MaxSplit
  /\ max_workers = 1 /\ geoip_enabled = FALSE
  /\ provider = "ipapi.co" /\ cache_ttl = 0

\* batches = [target_list[i:i + batch_size] for i in range(...)] (exporter.py:134)
Split ==
  /\ pc = "splitting"
  /\ batches' = Batches(target_list, batch_size)
  /\ pc' = "split"
  /\ UNCHANGED <<cycle, cfgVars, classifyVars, target_list, futures, collected, scan_calls,
                 successful_batches, failed_batches, all_scan_ips, batch_results,
                 hostname_map, reported, scans_before, metricVars, geoVars, now,
                 calls>>

SpecBatch == InitBatch /\ [][Split]_vars

\* ------------------------------------------------ the enricher alone
\* A GeoIPEnricher with an empty cache, for each provider name and TTL, on
\* which enrich_batch is called with any list of addresses, one call after
\* the other, while time passes.
InitEnrich ==
  /\ InitCommon
  /\ pc = "harness"
  /\ batch_size = 1 /\ max_workers = 1 /\ geoip_enabled = TRUE
  /\ provider \in {"ipapi.co", "ipinfo.io"}
  /\ cache_ttl \in 0..MaxTTL

\* enrich_batch(ips): one coroutine per element of ips (geoip_enricher.py:194)
CallEnrichBatch ==
  /\ pc = "harness"
  /\ tasks = <<>>
  /\ calls < MaxCalls
  /\ calls' = calls + 1
  /\ \E ips \in UNION {[1..n -> HostIPs] : n \in 1..MaxIps} :
       tasks' = [k \in 1..Len(ips) |-> NewTask(ips[k])]
  /\ UNCHANGED <<pc, cycle, cfgVars, classifyVars, scanVars, metricVars, cache, fetches,
                 geoip_data, now>>

\* asyncio.gather has every result; enrich_batch returns the mapping
\* (geoip_enricher.py:195-196).
EnrichBatchReturn ==
  /\ pc = "harness"
  /\ tasks /= <<>>
  /\ AllTasksDone
  /\ geoip_data' = GeoData(BatchResult(tasks))
  /\ tasks' = <<>>
  /\ UNCHANGED <<pc, cycle, cfgVars, classifyVars, scanVars, metricVars, cache, fetches, now,
                 calls>>

NextEnrich ==
  \/ CallEnrichBatch
  \/ \E k \in 1..Len(tasks) : TaskStart(k)
  \/ \E k \in 1..Len(tasks) : FetchReturn(k)
  \/ Tick
  \/ EnrichBatchReturn

SpecEnrich == InitEnrich /\ [][NextEnrich]_vars

\* -------------------------------------------------- the classifier alone
\* The isp, org and asn texts the classifier is called with: names with
\* keywords of one category, of two, of none, in either letter case.
IspMenu ==
  { <<"M","o","b","i","l","e"," ","C","l","o","u","d"," ","S","e","r","v","i","c","e","s">>,
    <<"A","W","S"," ","F","i","b","e","r"," ","N","e","t","w","o","r","k">>,
    <<"F","i","b","r","e"," ","D","S","L">>,
    <<"V","d","s","l"," ","L","i","n","e">>,
    <<"A","c","m","e">>,
    <<>> }
OrgMenu ==
  { <<"V","o","d","a","f","o","n","e">>,
    <<"A","m","a","z","o","n">>,
    <<"F","T","T","H"," ","N","e","t">>,
    <<"B","R","O","A","D","B","A","N","D">>,
    <<"A","c","m","e">>,
    <<>> }
AsnMenu ==
  { <<"A","S","1","6","5","0","9">>,
    <<"a","s","5","G">>,
    <<>> }

InitClassify ==
  /\ target_list = <<>>
  /\ InitRest
  /\ pc = "classifying"
  /\ batch_size = 1 /\ max_workers = 1 /\ geoip_enabled = TRUE
  /\ provider = "ipapi.co" /\ cache_ttl = 0
  /\ classify_in \in [isp : IspMenu, org : OrgMenu, asn : AsnMenu]
  /\ classify_out = ""

\* connection_type = self._infer_connection_type(isp, org, asn)
Classify ==
  /\ pc = "classifying"
  /\ classify_out' =
       InferConnectionType(classify_in.isp, classify_in.org, classify_in.asn)
  /\ pc' = "classified"
  /\ UNCHANGED <<cycle, cfgVars, scanVars, metricVars, geoVars, now, calls,
                 classify_in>>

SpecClassify == InitClassify /\ [][Classify]_vars

\* ================================================================ properties
\* The aggregates are complete once the loop over the futures has ended.
AfterScanning ==
  \/ pc = "scanning" /\ AllCollected
  \/ pc \in {"enriching", "emitting"}

\* The outcome that the result of a batch's own scan calls for.
OwnOutcome(res) ==
  IF res.kind = "result" /\ res.raises = "none" THEN "success" ELSE "failed"

\* ---------------------------------------------------------------------- C1
RECURSIVE Flatten(_)
Flatten(ss) == IF ss = <<>> THEN <<>> ELSE Head(ss) \o Flatten(Tail(ss))

\* C1: a list of N >= 1 targets split with batch size B > 0 gives exactly
\* ceil(N/B) batches, batch i (from 0) holds the targets at the positions
\* i*B .. min((i+1)*B, N) - 1 in their order, the batches concatenated in index
\* order are the list again, and every batch holds between 1 and B targets.
C1_BatchesPartitionTargets ==
  (pc = "split" /\ Len(target_list) >= 1) =>
    LET N == Len(target_list)
        B == batch_size
    IN /\ Len(batches) = (N + B - 1) \div B
       /\ Len(batches) * B >= N
       /\ (Len(batches) - 1) * B < N
       /\ \A i \in 0..(Len(batches) - 1) :
            /\ Len(batches[i + 1]) = Min((i + 1) * B, N) - i * B
            /\ \A j \in 1..Len(batches[i + 1]) :
                 batches[i + 1][j] = target_list[i * B + j]
            /\ Len(batches[i + 1]) >= 1
            /\ Len(batches[i + 1]) <= B
       /\ Flatten(batches) = target_list

\* Five targets split in twos: two full batches and a last one of one target.
C1_Witness ==
  /\ pc = "split"
  /\ Len(target_list) = 5
  /\ batch_size = 2
  /\ Len(batches) = 3
  /\ Len(batches[3]) = 1

\* ---------------------------------------------------------------------- C2
\* C2: while the outcomes are collected the two counts add up to the number of
\* outcomes handled, and once all are collected successful_batches +
\* failed_batches is the number of batches; each count is the number of batches
\* reported that way, and the process-wide counters have grown by exactly
\* these counts.
C2_CountsAddUp ==
  (pc \in {"scanning", "enriching", "emitting"}) =>
    /\ successful_batches + failed_batches = Cardinality(collected)
    /\ successful_batches = Cardinality({i \in BatchIdx : reported[i] = "success"})
    /\ failed_batches = Cardinality({i \in BatchIdx : reported[i] = "failed"})
    /\ metric_successful_scans = scans_before[1] + successful_batches
    /\ metric_failed_scans = scans_before[2] + failed_batches
    /\ AfterScanning => successful_batches + failed_batches = Len(batches)

\* A cycle of three batches of which one succeeded, one failed in the scan and
\* one failed while its result was read.
C2_Witness ==
  /\ pc = "emitting"
  /\ Len(batches) = 3
  /\ successful_batches = 1
  /\ failed_batches = 2
  /\ \E i \in BatchIdx : futures[i].result.kind = "error"
  /\ \E i \in BatchIdx : futures[i].result.raises = "stats"

\* ---------------------------------------------------------------------- C3
\* C3: the outcome reported for a batch is decided by the result of its own
\* scan alone; a failed batch leaves the loop running, so that every batch of
\* the cycle is scanned and gets its outcome, and the result of every scan that
\* returned one is kept with the batch it belongs to.
C3_FailureStaysInBatch ==
  /\ \A i \in collected : reported[i] = OwnOutcome(futures[i].result)
  /\ \A i \in BatchIdx \ collected : reported[i] = "none"
  /\ \A i \in collected :
       futures[i].result.kind = "result" =>
         \E k \in 1..Len(batch_results) :
           batch_results[k] = [nm |-> futures[i].result, batch |-> batches[i]]
  /\ (pc \in {"enriching", "emitting"}) =>
       /\ BatchIdx = 1..Len(batches)
       /\ collected = BatchIdx
       /\ \A i \in BatchIdx : futures[i].state = "finished"
  /\ (pc = "crashed") => (batch_size = 0 \/ max_workers = 0)

\* The first batch failed in its scan and was handled first; the batches after
\* it were scanned all the same and one of them succeeded.
C3_Witness ==
  /\ pc = "emitting"
  /\ Len(batches) = 3
  /\ futures[1].result.kind = "error"
  /\ reported[1] = "failed"
  /\ batch_results /= <<>>
  /\ batch_results[1].batch = batches[2]
  /\ reported[2] = "success"
  /\ reported[3] = "failed"

\* ---------------------------------------------------------------------- C4
\* C4: the scan of a batch is called at most once in a cycle, it has been
\* called exactly once for every batch whose future has left the queue, and
\* after the scanning every batch of the cycle has been scanned exactly once,
\* the failed ones included.
C4_ScannedOnce ==
  /\ \A i \in BatchIdx :
       /\ scan_calls[i] <= 1
       /\ (futures[i].state /= "pending") <=> (scan_calls[i] = 1)
  /\ AfterScanning =>
       /\ DOMAIN scan_calls = 1..Len(batches)
       /\ \A i \in 1..Len(batches) : scan_calls[i] = 1

\* Every batch of a cycle failed and none was scanned again.
C4_Witness ==
  /\ pc = "emitting"
  /\ Len(batches) = 2
  /\ failed_batches = 2
  /\ futures[1].result.kind = "error"
  /\ scan_calls[1] = 1
  /\ scan_calls[2] = 1

\* ---------------------------------------------------------------------- C5
\* C5: at every moment the number of batch scans in progress is at most the
\* configured number of concurrent batches.
C5_ConcurrencyBound == Cardinality(Running) <= max_workers

\* Three batches on two workers: two scans run, the third batch waits.
C5_Witness ==
  /\ max_workers = 2
  /\ Cardinality(Running) = 2
  /\ \E i \in BatchIdx : futures[i].state = "pending"

\* ---------------------------------------------------------------------- C6
\* C6: while the enrichment runs (its tasks exist, or the driver is in that
\* phase) no batch is queued or being scanned and every batch has been handed
\* its outcome.
C6_PhasesDisjoint ==
  (pc = "enriching" \/ tasks /= <<>>) =>
    /\ Running = {}
    /\ \A i \in BatchIdx : futures[i].state = "finished"
    /\ collected = BatchIdx
    /\ BatchIdx = 1..Len(batches)
    /\ \A i \in BatchIdx : reported[i] /= "none"

\* A fetch of the enrichment is in flight after a cycle of several batches.
C6_Witness ==
  /\ pc = "enriching"
  /\ Len(batches) >= 2
  /\ \E k \in 1..Len(tasks) : tasks[k].st = "fetching"

\* ---------------------------------------------------------------------- C7
\* The batch results that reach the emission, counted per value.
ResultEntry(i) == [nm |-> futures[i].result, batch |-> batches[i]]
WithResult == {i \in BatchIdx : futures[i].result.kind = "result"}

\* C7: once every outcome is collected, the counts, the collection of batch
\* results (as a multiset) and the set of discovered hosts are functions of the
\* batches' own results, whatever the order in which the scans completed and
\* were handled; and each outcome is reported under the index of the batch that
\* produced it.
C7_OrderIndependent ==
  AfterScanning =>
    /\ successful_batches =
         Cardinality({i \in BatchIdx : OwnOutcome(futures[i].result) = "success"})
    /\ failed_batches =
         Cardinality({i \in BatchIdx : OwnOutcome(futures[i].result) = "failed"})
    /\ Len(batch_results) = Cardinality(WithResult)
    /\ \A i \in WithResult :
         Cardinality({k \in 1..Len(batch_results) : batch_results[k] = ResultEntry(i)})
           = Cardinality({j \in WithResult : ResultEntry(j) = ResultEntry(i)})
    /\ all_scan_ips =
         IF geoip_enabled
         THEN UNION {{e.host : e \in futures[i].result.hosts} :
                       i \in {j \in WithResult : futures[j].result.raises /= "hostname"}}
         ELSE {}
    /\ \A i \in BatchIdx : reported[i] = OwnOutcome(futures[i].result)

\* The second batch was handled before the first, and their outcomes differ.
C7_Witness ==
  /\ pc = "emitting"
  /\ Len(batch_results) = 2
  /\ batches[1] /= batches[2]
  /\ batch_results[1].batch = batches[2]
  /\ batch_results[2].batch = batches[1]
  /\ reported[1] = "failed"
  /\ reported[2] = "success"
  /\ all_scan_ips /= {}

\* ---------------------------------------------------------------------- C8
\* C8: when enrich(ip) starts while the cache holds an entry for ip that is
\* younger than the TTL, it ends at once with the record of that entry, issues
\* no fetch and leaves the cache as it is.
C8_HitReturnsCached ==
  [][\A k \in 1..Len(tasks) :
       ( /\ Len(tasks') = Len(tasks)
         /\ tasks[k].st = "new"
         /\ tasks'[k].st /= "new"
         /\ tasks[k].ip \in DOMAIN cache
         /\ now - cache[tasks[k].ip].timestamp < cache_ttl )
       => /\ tasks'[k].st = "done"
          /\ tasks'[k].result = cache[tasks[k].ip].data
          /\ fetches' = fetches
          /\ cache' = cache]_vars

\* A second call found the entry that the first call had fetched still valid.
C8_Witness ==
  /\ calls = 2
  /\ fetches = 1
  /\ \E k \in 1..Len(tasks) :
       /\ tasks[k].how = "hit"
       /\ tasks[k].ip \in DOMAIN cache
       /\ tasks[k].result = cache[tasks[k].ip].data
       /\ tasks[k].result /= empty_data
       /\ now > cache[tasks[k].ip].timestamp

\* ---------------------------------------------------------------------- C9
\* C9: an entry fetched at t0 is valid exactly when now - t0 < TTL: valid at
\* every reading in [t0, t0 + TTL), invalid from t0 + TTL on; an address with
\* no entry is never valid.
C9_ValidityWindow ==
  \A ip \in HostIPs :
    /\ ip \notin DOMAIN cache => ~IsCacheValid(ip)
    /\ ip \in DOMAIN cache =>
         LET t0 == cache[ip].timestamp IN
         /\ t0 <= now
         /\ IsCacheValid(ip) <=> (now - t0 < cache_ttl)
         /\ (t0 <= now /\ now < t0 + cache_ttl) => IsCacheValid(ip)
         /\ (now >= t0 + cache_ttl) => ~IsCacheValid(ip)

\* The clock reads exactly t0 + TTL: the entry has just stopped being valid.
C9_Witness ==
  /\ cache_ttl = MaxTTL
  /\ cache_ttl >= 2
  /\ \E ip \in DOMAIN cache :
       /\ now = cache[ip].timestamp + cache_ttl
       /\ ~IsCacheValid(ip)

\* --------------------------------------------------------------------- C10
\* C10: when the fetch of enrich(ip) returns data, the record returned is built
\* from that data with the connection type the classifier gives for its isp,
\* org and asn, and the cache entry of ip becomes that record stamped with the
\* current time, whatever entry ip had; no other entry changes.
C10_FreshFetchCached ==
  [][\A k \in 1..Len(tasks) :
       ( /\ Len(tasks') = Len(tasks)
         /\ tasks[k].st = "fetching"
         /\ tasks'[k].st = "done"
         /\ tasks'[k].raw.some )
       => LET raw == tasks'[k].raw
              ip == tasks[k].ip
              rec == tasks'[k].result
          IN /\ rec = [asn |-> raw.asn, isp |-> raw.isp, org |-> raw.org,
                       country |-> raw.country, city |-> raw.city,
                       region |-> raw.region,
                       connection_type |->
                         InferConnectionType(raw.isp, raw.org, raw.asn)]
             /\ ip \in DOMAIN cache'
             /\ cache'[ip] = [data |-> rec, timestamp |-> now]
             /\ \A other \in DOMAIN cache' \ {ip} :
                  other \in DOMAIN cache /\ cache'[other] = cache[other]]_vars

\* A fetch of the second call replaced the stale entry that the first call had
\* written with another record.
C10_Witness ==
  /\ calls = 2
  /\ geoip_data.some
  /\ \E k \in 1..Len(tasks) :
       /\ tasks[k].how = "fresh"
       /\ tasks[k].ip \in DOMAIN geoip_data.data
       /\ geoip_data.data[tasks[k].ip] /= empty_data
       /\ geoip_data.data[tasks[k].ip] /= tasks[k].result
       /\ cache[tasks[k].ip] = [data |-> tasks[k].result, timestamp |-> now]
       /\ tasks[k].result.connection_type = "mobile"
       /\ now > 0

\* --------------------------------------------------------------------- C11
\* C11: when the one fetch of enrich(ip) ends without data while the cache
\* holds an entry for ip, the call returns the record of that entry, which is
\* not the empty record, no second fetch is issued and the cache stays as it is.
C11_StaleFallback ==
  [][\A k \in 1..Len(tasks) :
       ( /\ Len(tasks') = Len(tasks)
         /\ tasks[k].st = "fetching"
         /\ tasks'[k].st /= "fetching"
         /\ ~tasks'[k].raw.some
         /\ tasks[k].ip \in DOMAIN cache )
       => /\ tasks'[k].st = "done"
          /\ tasks'[k].result = cache[tasks[k].ip].data
          /\ tasks'[k].result /= empty_data
          /\ fetches' = fetches
          /\ cache' = cache]_vars

\* An entry written by the first call had expired when the second call looked
\* it up, the fetch failed, and the old record was returned.
C11_Witness ==
  /\ calls = 2
  /\ cache_ttl > 0
  /\ fetches = 2
  /\ \E k \in 1..Len(tasks) :
       /\ tasks[k].st = "done"
       /\ ~tasks[k].raw.some
       /\ tasks[k].ip \in DOMAIN cache
       /\ now - cache[tasks[k].ip].timestamp >= cache_ttl
       /\ tasks[k].result = cache[tasks[k].ip].data
       /\ tasks[k].result /= empty_data
       /\ Len(tasks) = 1

\* --------------------------------------------------------------------- C12
\* C12: every way a lookup can fail (timeout, transport error, status other
\* than 200, rate limit, unsupported provider) ends the call normally, and when
\* the address has no cache entry the call returns the empty record: connection
\* type "unknown", every other field empty.  Nothing is cached.
C12_FailureGivesEmptyRecord ==
  [][/\ \A resp \in FetchResponses :
          (resp.kind /= "http" \/ resp.status /= 200) => ~fetch_ipapi_co(resp).some
     /\ \A k \in 1..Len(tasks) :
          ( /\ Len(tasks') = Len(tasks)
            /\ tasks[k].st /= "done"
            /\ tasks'[k].st /= tasks[k].st
            /\ tasks'[k].st /= "fetching"
            /\ ~tasks'[k].raw.some
            /\ tasks[k].ip \notin DOMAIN cache )
          => /\ tasks'[k].st = "done"
             /\ tasks'[k].result =
                  [asn |-> <<>>, isp |-> <<>>, org |-> <<>>, country |-> "",
                   city |-> "", region |-> "", connection_type |-> "unknown"]
             /\ cache' = cache]_vars

\* Both fetches of a call failed and neither address had an entry.
C12_Witness ==
  /\ provider = "ipapi.co"
  /\ fetches = 2
  /\ cache = EmptyDict
  /\ Len(tasks) = 2
  /\ \A k \in 1..Len(tasks) :
       /\ tasks[k].st = "done"
       /\ ~tasks[k].raw.some
       /\ tasks[k].result.connection_type = "unknown"
       /\ tasks[k].result.isp = <<>>

\* --------------------------------------------------------------------- C13
\* C13: the mapping enrich_batch returns has exactly the distinct addresses of
\* its input as keys, each mapped to the record one of the enrich calls for
\* that address returned; an address that has no cache entry when the call
\* returns (no fetch for it ever succeeded) maps to the empty record.
C13_BatchMappingComplete ==
  [][(tasks /= <<>> /\ tasks' = <<>>) =>
       /\ geoip_data'.some
       /\ DOMAIN geoip_data'.data = {tasks[k].ip : k \in 1..Len(tasks)}
       /\ \A ip \in DOMAIN geoip_data'.data :
            /\ \E k \in 1..Len(tasks) :
                 tasks[k].ip = ip /\ geoip_data'.data[ip] = tasks[k].result
            /\ geoip_data'.data[ip].connection_type
                 \in {"mobile", "datacentre", "fibre", "dsl", "unknown"}
            /\ ip \notin DOMAIN cache => geoip_data'.data[ip] = empty_data]_vars

\* A call on a list that names one address twice, both of whose fetches
\* failed, has returned a mapping with that one key.
C13_Witness ==
  /\ calls = 1
  /\ fetches = 2
  /\ tasks = <<>>
  /\ cache = EmptyDict
  /\ geoip_data.some
  /\ Cardinality(DOMAIN geoip_data.data) = 1
  /\ \A ip \in DOMAIN geoip_data.data : geoip_data.data[ip] = empty_data

\* --------------------------------------------------------------------- C14
\* C14: during one enrich_batch call there is one enrich call per distinct
\* address of the input, so that no two tasks of the call are for the same
\* address and at no time two fetches for one address are in flight.
C14_OneCallPerAddress ==
  \A j, k \in 1..Len(tasks) :
    (tasks[j].ip = tasks[k].ip /\ tasks[j].st = "fetching" /\ tasks[k].st = "fetching")
      => j = k

\* --------------------------------------------------------------------- C15
\* C15: in the enrich_batch call of the driver the tasks are for the hosts the
\* cycle discovered, one task per host: no two tasks of the call are for the
\* same address, so no two of them touch the same cache key.
C15_DriverInputDistinct ==
  (pc = "enriching") =>
    /\ \A j, k \in 1..Len(tasks) : tasks[j].ip = tasks[k].ip => j = k
    /\ {tasks[k].ip : k \in 1..Len(tasks)} = all_scan_ips
    /\ Len(tasks) = Cardinality(all_scan_ips)

\* Two tasks of the driver's call have their fetches in flight at once, for
\* different addresses.
C15_Witness ==
  /\ pc = "enriching"
  /\ Len(tasks) = 2
  /\ tasks[1].st = "fetching"
  /\ tasks[2].st = "fetching"
  /\ tasks[1].ip /= tasks[2].ip

\* --------------------------------------------------------------------- C16
\* C16: the statistics of the cache are: total, the number of entries; valid,
\* the number of entries younger than the TTL; stale, total - valid, which is
\* the number of entries at least as old as the TTL.  So total = valid + stale
\* always, and all three are 0 while the cache has no entry.
C16_CacheStats ==
  LET stats == get_cache_stats IN
  /\ stats.total_entries = Cardinality(DOMAIN cache)
  /\ stats.valid_entries =
       Cardinality({ip \in DOMAIN cache : now - cache[ip].timestamp < cache_ttl})
  /\ stats.stale_entries = stats.total_entries - stats.valid_entries
  /\ stats.stale_entries =
       Cardinality({ip \in DOMAIN cache : now - cache[ip].timestamp >= cache_ttl})
  /\ stats.total_entries = stats.valid_entries + stats.stale_entries
  /\ (cache = EmptyDict \/ fetches = 0) =>
       stats = [total_entries |-> 0, valid_entries |-> 0, stale_entries |-> 0]

\* Two entries, one still valid and one exactly as old as the TTL.
C16_Witness ==
  /\ cache_ttl > 0
  /\ get_cache_stats = [total_entries |-> 2, valid_entries |-> 1, stale_entries |-> 1]
  /\ \E ip \in DOMAIN cache : now - cache[ip].timestamp = cache_ttl

\* --------------------------------------------------------------------- C17
\* C17: no step removes a cache entry.  An address that has an entry keeps one
\* in every later state: the passing of time and a failed refresh leave the
\* entry as it is, and only a fetch for that address that returned data
\* replaces it, in place, by a record stamped with the current time.
C17_EntriesNeverRemoved ==
  [][/\ DOMAIN cache \subseteq DOMAIN cache'
     /\ Cardinality(DOMAIN cache') <= Cardinality(DOMAIN cache) + 1
     /\ \A ip \in DOMAIN cache :
          \/ cache'[ip] = cache[ip]
          \/ /\ cache'[ip].timestamp = now
             /\ \E k \in 1..Len(tasks) :
                  /\ tasks[k].ip = ip
                  /\ tasks[k].st = "fetching"
                  /\ tasks'[k].st = "done"
                  /\ tasks'[k].raw.some
                  /\ cache'[ip].data = tasks'[k].result
     /\ (now' /= now) => cache' = cache]_vars

\* Both entries of the first call had expired; in the second call the refresh
\* of the first address failed and that of the second replaced its entry.
C17_Witness ==
  /\ calls = 2
  /\ Cardinality(DOMAIN cache) = 2
  /\ Len(tasks) = 2
  /\ tasks[1].st = "done"
  /\ ~tasks[1].raw.some
  /\ tasks[1].ip \in DOMAIN cache
  /\ now - cache[tasks[1].ip].timestamp >= cache_ttl
  /\ cache_ttl > 0
  /\ tasks[2].st = "done"
  /\ tasks[2].raw.some
  /\ tasks[2].ip /= tasks[1].ip
  /\ cache[tasks[2].ip].timestamp = now
  /\ geoip_data.some
  /\ tasks[2].ip \in DOMAIN geoip_data.data
  /\ geoip_data.data[tasks[2].ip] /= empty_data

\* --------------------------------------------------------------------- C18
\* C18: the debug dump shows the cache the scan cycle fills: every address the
\* enrichment has stored a record for is in the dump, with its record, its
\* fetch timestamp and its current validity flag, and the statistics of the
\* dump count it.
C18_DumpShowsCycleCache ==
  geoip_enabled =>
    /\ \A ip \in DOMAIN cache :
         /\ ip \in DOMAIN DebugGeoip.cached_data
         /\ DebugGeoip.cached_data[ip] =
              [data |-> cache[ip].data,
               cached_at |-> cache[ip].timestamp,
               is_valid |-> IsCacheValid(ip)]
    /\ DebugGeoip.stats.total_entries = Cardinality(DOMAIN cache)

\* --------------------------------------------------------------------- C19
\* A keyword of the list occurs in the lower-cased "isp org asn" of the call.
Occurs(keywords) ==
  \E k \in 1..Len(keywords) :
    Contains(Combined(classify_in.isp, classify_in.org, classify_in.asn), keywords[k])

\* C19: the classifier returns the first category, in the order mobile,
\* datacentre, fibre, dsl, one of whose keywords occurs in the lower-cased
\* text of the three fields, and unknown when none occurs: mobile wins over
\* datacentre, datacentre over fibre, fibre over dsl, and a category is only
\* returned when one of its keywords occurs.
C19_FirstMatchingCategory ==
  (pc = "classified") =>
    /\ Occurs(mobile_keywords) => classify_out = "mobile"
    /\ (Occurs(mobile_keywords) /\ Occurs(datacenter_keywords))
         => classify_out = "mobile"
    /\ (~Occurs(mobile_keywords) /\ Occurs(datacenter_keywords))
         => classify_out = "datacentre"
    /\ (~Occurs(mobile_keywords) /\ Occurs(datacenter_keywords)
          /\ Occurs(fiber_keywords))
         => classify_out = "datacentre"
    /\ (~Occurs(mobile_keywords) /\ ~Occurs(datacenter_keywords)
          /\ Occurs(fiber_keywords))
         => classify_out = "fibre"
    /\ (~Occurs(mobile_keywords) /\ ~Occurs(datacenter_keywords)
          /\ ~Occurs(fiber_keywords) /\ Occurs(dsl_keywords))
         => classify_out = "dsl"
    /\ (~Occurs(mobile_keywords) /\ ~Occurs(datacenter_keywords)
          /\ ~Occurs(fiber_keywords) /\ ~Occurs(dsl_keywords))
         => classify_out = "unknown"
    /\ classify_out \in {"mobile", "datacentre", "fibre", "dsl", "unknown"}

\* "AWS Fiber Network", "Amazon", "AS16509": data centre and fibre keywords
\* occur, no mobile one, and the answer is datacentre.
C19_Witness ==
  /\ pc = "classified"
  /\ classify_in = [isp |-> <<"A","W","S"," ","F","i","b","e","r"," ","N","e","t","w","o","r","k">>,
                    org |-> <<"A","m","a","z","o","n">>,
                    asn |-> <<"A","S","1","6","5","0","9">>]
  /\ Occurs(datacenter_keywords)
  /\ Occurs(fiber_keywords)
  /\ ~Occurs(mobile_keywords)
  /\ classify_out = "datacentre"

\* --------------------------------------------------------------------- C20
\* The other case of a letter; any other character stays.
SwapChar(c) ==
  IF \E i \in 1..26 : UpperCase[i] = c
  THEN LowerCase[CHOOSE i \in 1..26 : UpperCase[i] = c]
  ELSE IF \E i \in 1..26 : LowerCase[i] = c
       THEN UpperCase[CHOOSE i \in 1..26 : LowerCase[i] = c]
       ELSE c
IsUpperChar(c) == \E i \in 1..26 : UpperCase[i] = c
IsLowerChar(c) == \E i \in 1..26 : LowerCase[i] = c

\* Texts that differ from s in letter case only: all capitals, all small,
\* every letter swapped, and one character swapped.
CaseVariantsOf(s) ==
  { [i \in 1..Len(s) |-> IF IsLowerChar(s[i]) THEN SwapChar(s[i]) ELSE s[i]],
    [i \in 1..Len(s) |-> IF IsUpperChar(s[i]) THEN SwapChar(s[i]) ELSE s[i]],
    [i \in 1..Len(s) |-> SwapChar(s[i])] }
  \cup { [i \in 1..Len(s) |-> IF i = j THEN SwapChar(s[i]) ELSE s[i]] : j \in 1..Len(s) }

\* C20: the classifier gives the same category when letters of isp, of org or
\* of asn are given in the other case.
C20_CaseInsensitive ==
  (pc = "classified") =>
    /\ \A v \in CaseVariantsOf(classify_in.isp) :
         InferConnectionType(v, classify_in.org, classify_in.asn) = classify_out
    /\ \A v \in CaseVariantsOf(classify_in.org) :
         InferConnectionType(classify_in.isp, v, classify_in.asn) = classify_out
    /\ \A v \in CaseVariantsOf(classify_in.asn) :
         InferConnectionType(classify_in.isp, classify_in.org, v) = classify_out
    /\ \A vi \in CaseVariantsOf(classify_in.isp) :
         \A vo \in CaseVariantsOf(classify_in.org) :
           InferConnectionType(vi, vo, classify_in.asn) = classify_out

\* "BROADBAND" alone, in capitals, is dsl, as "broadband" is.
C20_Witness ==
  /\ pc = "classified"
  /\ classify_in = [isp |-> <<>>, org |-> <<"B","R","O","A","D","B","A","N","D">>, asn |-> <<>>]
  /\ <<"b","r","o","a","d","b","a","n","d">> \in CaseVariantsOf(classify_in.org)
  /\ classify_out = "dsl"

\* --------------------------------------------------------------------- C21
\* C21: an iteration whose target string is empty reports a target count of 0
\* and goes straight to the sleep, and only such an iteration does; it calls
\* no scan, issues no enrichment lookup and touches no metric of the scan
\* results or counters; after the sleep the next iteration begins.
C21_EmptyTargetsSkipCycle ==
  [][/\ (pc = "resolving" /\ pc' \notin {"resolving", "crashed"}) =>
          /\ (metric_target_count' = 0) <=> (pc' = "sleeping")
          /\ (metric_target_count' > 0) <=> (pc' = "scanning")
          /\ (metric_target_count' = 0) =>
               /\ UNCHANGED <<scan_calls, futures, batch_results, tasks, fetches,
                              cache, geoip_data>>
               /\ UNCHANGED <<metric_results, metric_results_geoip,
                              metric_successful_scans, metric_failed_scans>>
     /\ (pc = "sleeping" /\ pc' \notin {"sleeping", "crashed"}) =>
          /\ pc' = "resolving"
          /\ UNCHANGED <<scanVars, metricVars, geoVars>>]_vars

\* The first iteration scanned and emitted; the second found no target and is
\* at its sleep with the count 0 and everything else as the first left it.
C21_Witness ==
  /\ pc = "sleeping"
  /\ cycle = 2
  /\ metric_target_count = 0
  /\ metric_results /= EmptyDict
  /\ metric_successful_scans = 1
  /\ scan_calls = <<1>>

\* --------------------------------------------------------------------- C22
\* The hosts reported by the batches that the cycle counted as successful.
SuccessfulHosts ==
  UNION {{e.host : e \in futures[i].result.hosts} :
           i \in {j \in BatchIdx : reported[j] = "success"}}

\* C22: enrich_batch is running in a cycle only if enrichment is enabled and a
\* host was discovered, and the addresses it was called with are, without
\* repetition, the hosts reported by the batches that succeeded in the cycle;
\* and a cycle with enrichment enabled and such a host does not pass to the
\* emission without the call.
C22_EnrichArgumentIsSuccessfulHosts ==
  /\ (pc = "enriching") =>
       /\ geoip_enabled
       /\ SuccessfulHosts /= {}
       /\ {tasks[k].ip : k \in 1..Len(tasks)} = SuccessfulHosts
       /\ \A j, k \in 1..Len(tasks) : tasks[j].ip = tasks[k].ip => j = k
  /\ (pc = "scanning" /\ AllCollected /\ geoip_enabled /\ SuccessfulHosts /= {})
       => all_scan_ips = SuccessfulHosts

\* --------------------------------------------------------------------- C23
\* The label values of the base series of a service record.
BaseKey(hm, e) ==
  LET s == ServiceOf(e) IN <<s.host, TargetLabel(hm, s.host), s.protocol, s.name, s.product>>

\* The enriched series carries the labels of the base series first.
HasGeoSeries(mg, key) ==
  \E g \in DOMAIN mg : \A n \in 1..Len(key) : g[n] = key[n]

\* C23: when the cycle emits, every service record of every batch counted
\* successful has its base series set, to a port reported for its host,
\* whatever the outcomes of the other batches and of the enrichment; and its
\* enriched series is set exactly when the enrichment result of the cycle
\* holds a record for the host of the service record.
C23_BaseAlwaysEnrichedIfRecord ==
  [][(pc = "emitting" /\ pc' = "sleeping") =>
       \A i \in {j \in BatchIdx : reported[j] = "success"} :
         \A e \in futures[i].result.hosts :
           LET key == BaseKey(hostname_map, e) IN
           /\ key \in DOMAIN metric_results'
           /\ \E r \in 1..Len(batch_results) :
                \E x \in batch_results[r].nm.hosts :
                  x.host = e.host /\ metric_results'[key] = x.port
           /\ HasGeoSeries(metric_results_geoip', key)
                <=> (geoip_data.some /\ e.host \in DOMAIN geoip_data.data)]_vars

\* A cycle with a successful and a failed batch whose enrichment raised has
\* emitted base series only.
C23_Witness ==
  /\ pc = "sleeping"
  /\ successful_batches = 1 /\ failed_batches = 1
  /\ geoip_enabled /\ all_scan_ips /= {} /\ ~geoip_data.some
  /\ metric_results /= EmptyDict
  /\ metric_results_geoip = EmptyDict

\* --------------------------------------------------------------------- C24
\* The place of a phase in the order of one cycle.
PhaseRank(p) ==
  CASE p = "resolving" -> 1
    [] p = "scanning" -> 2
    [] p = "enriching" -> 3
    [] p = "emitting" -> 4
    [] p = "sleeping" -> 5
    [] OTHER -> 6

\* C24: within a cycle the phases follow one another in the order Resolving,
\* Scanning, Enriching, Emitting, Sleeping, and only Sleeping leads to the
\* Resolving of the next cycle; the service metrics change only in the step
\* that ends Emitting, when no enrichment lookup of the cycle is left; and a
\* cycle begins only when no scan and no lookup of the cycle before is running.
C24_PhaseOrder ==
  [][/\ (pc' /= pc /\ pc' /= "crashed") =>
          \/ PhaseRank(pc) < PhaseRank(pc') /\ (cycle' /= cycle => pc = "resolving")
          \/ pc = "sleeping" /\ pc' = "resolving" /\ cycle' = cycle
     /\ (pc = "scanning" /\ pc' /= pc) => pc' \in {"enriching", "emitting"} /\ AllCollected
     /\ (pc = "enriching" /\ pc' /= pc) => pc' = "emitting" /\ tasks' = <<>>
     /\ (pc = "emitting" /\ pc' /= pc) => pc' \in {"sleeping", "crashed"}
     /\ (cycle' /= cycle) =>
          /\ cycle' = cycle + 1
          /\ pc = "resolving"
          /\ tasks = <<>>
          /\ \A i \in BatchIdx : futures[i].state = "finished" /\ i \in collected
     /\ (<<metric_results, metric_results_geoip>>' /= <<metric_results, metric_results_geoip>>) =>
          /\ pc = "emitting" /\ pc' = "sleeping"
          /\ tasks = <<>>
          /\ \A i \in BatchIdx : futures[i].state = "finished"]_vars

\* The second cycle has gone through all five phases with an enrichment that
\* returned.
C24_Witness ==
  /\ cycle = 2 /\ pc = "sleeping" /\ now > 0
  /\ metric_target_count = 1
  /\ metric_successful_scans = 2
  /\ geoip_data.some
  /\ metric_results_geoip /= EmptyDict

\* --------------------------------------------------------------------- C25
\* C25: an exception of the loop body that is neither the error of a batch
\* nor the failure of the enrichment ends the loop for good: once the handler
\* at the outermost level has run nothing happens any more, no cycle begins
\* and no metric changes; the step into it writes no service metric and no
\* cache entry; and the scanning and the enriching phase, whose errors are
\* handled where they occur, never lead there.
C25_UnexpectedEndsLoop ==
  [][/\ pc /= "crashed"
     /\ (pc' = "crashed") =>
          /\ pc \in {"resolving", "emitting", "sleeping"}
          /\ UNCHANGED <<cycle, metric_results, metric_results_geoip,
                         metric_successful_scans, metric_failed_scans, geoVars>>
          \/ /\ pc = "resolving"
             /\ cycle' = cycle + 1
             /\ UNCHANGED <<metric_results, metric_results_geoip,
                            metric_successful_scans, metric_failed_scans, geoVars>>]_vars

\* The loop ended in its second cycle, after the scan of the cycle succeeded.
C25_Witness ==
  /\ pc = "crashed"
  /\ cycle = 2
  /\ metric_target_count = 1
  /\ successful_batches = 1
  /\ metric_successful_scans = 2

\* --------------------------------------------------------------------- C26
\* C26: once the interrupt has been raised the process exits without any
\* further work: no batch scan is started or finished and no lookup is made
\* between the interrupt and the exit, whatever the phase it arrived in.
C26_InterruptExitsAtOnce ==
  [][(pc = "draining") =>
       /\ pc' = "exited"
       /\ UNCHANGED <<futures, scan_calls, tasks, fetches, cache>>]_vars

\* --------------------------------------------------------------------- C27
\* C27: the target sequence that is split into batches holds no token twice
\* and no empty token, whatever lines the source returned, lines with blanks
\* at their ends or inside included.
C27_TargetsDistinctNonEmpty ==
  (pc = "scanning") =>
  \A i \in 1..Len(target_list) :
    /\ Spelling(target_list[i]) /= <<>>
    /\ \A j \in 1..Len(target_list) : target_list[i] = target_list[j] => i = j

\* --------------------------------------------------------------------- C28
\* C28: when every scan and every lookup returns, no exception leaves the
\* loop body and no interrupt arrives, every cycle that has begun reaches its
\* Sleeping phase, and the cycle after it begins (up to the number of cycles
\* that is explored).
C28_EveryCycleCompletes ==
  \A n \in 1..LoopCycles :
    /\ (cycle = n /\ pc \in {"scanning", "enriching", "emitting"})
         ~> (cycle = n /\ pc = "sleeping")
    /\ (cycle = n - 1) ~> (cycle = n)

\* The last cycle has reached its sleep after a scan of every cycle had
\* returned an error.
C28_Witness ==
  /\ cycle = LoopCycles
  /\ pc = "sleeping"
  /\ now > 0
  /\ failed_batches = 1
  /\ metric_failed_scans = LoopCycles

\* --------------------------------------------------------------------- C29
\* The target a host entry of a scan result came from: the hostname target
\* that was resolved to it, or the host itself when it was a literal target.
OriginOf(e) == IF e.hostname /= "" THEN e.hostname ELSE e.host

\* C29: when the cycle emits, the target label of every service record of a
\* successful batch is the original target its host came from: a host that is
\* a literal target is labelled with itself, a host that a hostname target
\* was resolved to is labelled with that hostname, and a hostname target does
\* not change the label of a host that came from another target.
C29_LabelIsOriginalTarget ==
  (pc = "emitting") =>
    \A i \in {j \in BatchIdx : reported[j] = "success"} :
      \A e \in futures[i].result.hosts :
        TargetLabel(hostname_map, e.host) = OriginOf(e)

\* --------------------------------------------------------------------- C30
\* C30: a call of enrich that ends without data from the provider leaves the
\* cache as it was: an entry of the address keeps its record and its fetch
\* time, and an address without an entry has none afterwards.
C30_FailedFetchLeavesCache ==
  [][\A k \in 1..Len(tasks) :
       ( /\ Len(tasks') = Len(tasks)
         /\ tasks[k].st /= "done"
         /\ tasks'[k].st = "done"
         /\ tasks'[k].how /= "hit"
         /\ ~tasks'[k].raw.some )
       => LET ip == tasks[k].ip IN
          /\ DOMAIN cache' = DOMAIN cache
          /\ (ip \in DOMAIN cache) =>
               /\ cache'[ip].data = cache[ip].data
               /\ cache'[ip].timestamp = cache[ip].timestamp
          /\ (ip \notin DOMAIN cache) => ip \notin DOMAIN cache'
          /\ cache' = cache]_vars

\* In the second call the refresh of an expired entry failed and the lookup
\* of an address without entry failed: the cache holds the old entry only.
C30_Witness ==
  /\ calls = 2
  /\ Len(tasks) = 2
  /\ Cardinality(DOMAIN cache) = 1
  /\ \A k \in 1..2 : tasks[k].st = "done" /\ ~tasks[k].raw.some
  /\ tasks[1].how = "stale" /\ tasks[1].ip \in DOMAIN cache
  /\ cache[tasks[1].ip].timestamp < now
  /\ cache[tasks[1].ip].data /= empty_data
  /\ tasks[2].how = "empty" /\ tasks[2].ip \notin DOMAIN cache
  /\ fetches = 3

\* --------------------------------------------------------------------- C31
\* The batches the cycle counted as successful.
SuccessfulIdx == {i \in BatchIdx : reported[i] = "success"}

\* C31: the batches whose service records the cycle emits are exactly the
\* batches it counted as successful: the results with records that are handed
\* to the emission are those of the successful batches and of no batch
\* counted as failed, and
\* after the emission of the first cycle every base series belongs to a
\* record of a successful batch.
C31_EmittedAreSuccessful ==
  /\ (pc = "emitting") =>
       \A i \in BatchIdx :
         (\E r \in 1..Len(batch_results) :
            /\ batch_results[r].batch = batches[i]
            /\ batch_results[r].nm = futures[i].result
            /\ batch_results[r].nm.hosts /= {})
         <=> (i \in SuccessfulIdx /\ futures[i].result.hosts /= {})
  /\ (pc = "sleeping" /\ cycle = 1) =>
       \A key \in DOMAIN metric_results :
         \E i \in SuccessfulIdx :
           \E e \in futures[i].result.hosts : key[1] = e.host

\* --------------------------------------------------------------------- C32
\* C32: no step removes a series of the service gauges.  A base series that
\* has been set stays exposed in every later state, and its value changes
\* only in the emission of a cycle that holds a record with the labels of the
\* series, to the port of such a record; a cycle whose batch failed, that
\* found other services or that had no target leaves it as it was.
C32_SeriesNeverCleared ==
  [][/\ DOMAIN metric_results_geoip \subseteq DOMAIN metric_results_geoip'
     /\ \A key \in DOMAIN metric_results :
          /\ key \in DOMAIN metric_results'
          /\ \/ metric_results'[key] = metric_results[key]
             \/ /\ pc = "emitting" /\ pc' = "sleeping"
                /\ \E r \in 1..Len(batch_results) :
                     \E e \in batch_results[r].nm.hosts :
                       /\ BaseKey(hostname_map, e) = key
                       /\ metric_results'[key] = e.port]_vars

\* The series of the first cycle are still exposed after the second cycle,
\* whose only batch failed and emitted nothing.
C32_Witness ==
  /\ cycle = 2
  /\ pc = "sleeping"
  /\ metric_target_count = 1
  /\ failed_batches = 1
  /\ batch_results = <<>>
  /\ metric_successful_scans = 1
  /\ metric_results /= EmptyDict

====
